---- MODULE Spec2Model ----
(***************************************************************************)
(* Model of deployml.keras.train.training.TrainingBase: the fields of the  *)
(* orchestrator, the wrapped model, and the operations train,              *)
(* evaluate_outcome, show_roc_curve and calculate.  Every library call     *)
(* (pandas, scikit-learn, imblearn, keras) is opaque, so its result is a   *)
(* symbolic term recording the callee and the arguments it was given.      *)
(***************************************************************************)
EXTENDS Integers, Sequences, FiniteSets, TLC

VARIABLES self, model, ret, trace, lastTrain

vars == <<self, model, ret, trace, lastTrain>>

\* Number of train invocations explored.
MaxCalls == 2

---------------------------------------------------------------------------
\* Values

None == [tag |-> "None"]

Str(s) == [tag |-> "str", v |-> s]

Num(n) == [tag |-> "num", v |-> n]

\* Datasets a caller may bind, and their column names.
Datasets == {"D1"}

Columns(d) == {"a", "b", "y"}

OutcomeNames == {"y", "z"}

DataFrame(d) == [tag |-> "DataFrame", id |-> d]

\* Values of the scaling_tool argument: the three documented names and one
\* unrecognised name.
ScalingNames == {"standard", "min max", "normalize", "robust"}

\* Input rows handed to calculate.
Rows == {"r1"}

Row(r) == [tag |-> "row", id |-> r]

\* The external call that raises during one invocation ("none": no call raises).
TrainFaults == {"none", "SMOTE", "model.fit"}

---------------------------------------------------------------------------
\* Terms built by the library calls.  `call` is the train invocation that
\* created the object.

Drop(df, c, n) == [tag |-> "frame", data |-> df.id, cols |-> Columns(df.id) \ {c.v}, call |-> n]

GetCol(df, c, n) == [tag |-> "series", data |-> df.id, col |-> c.v, call |-> n]

ColumnList(X) == [tag |-> "list", v |-> X.cols]

SplitPart(arr, which, n) == [tag |-> "part", of |-> arr, which |-> which, call |-> n]

Resampled(X, y, which) == [tag |-> "resampled", X |-> X, y |-> y, which |-> which]

NpArray(t) == [tag |-> "array", of |-> t]

NewScaler(kind, n) == [tag |-> "scaler", kind |-> kind, fittedOn |-> None, call |-> n]

Fitted(scaler, X) == [scaler EXCEPT !.fittedOn = X]

Transform(scaler, X) == [tag |-> "scaled", by |-> scaler, X |-> X]

History(X, y, n) == [tag |-> "History", X |-> X, y |-> y, call |-> n]

FittedModel(m, X, y) == [m EXCEPT !.fit = [X |-> X, y |-> y]]

Predict(m, X) == [tag |-> "proba", by |-> m.fit, on |-> X]

PredictClasses(m, X) == [tag |-> "classes", by |-> m.fit, on |-> X]

ClassificationReport(y, p) == [tag |-> "report", y_true |-> y, y_pred |-> p]

RocCurve(y, p) == [tag |-> "roc", y_true |-> y, y_score |-> p]

Auc(roc) == [tag |-> "auc", of |-> roc]

---------------------------------------------------------------------------
\* One handler invocation in progress: the fields, the wrapped model, the
\* exception raised so far (and its line) and the library calls made.

Frame0(s, m) == [self |-> s, model |-> m, exc |-> "none", line |-> 0, trace |-> <<>>]

Raise(f, e, l) == [f EXCEPT !.exc = e, !.line = l]

Call(f, fn, ok) == [f EXCEPT !.trace = Append(@, [fn |-> fn, ok |-> ok])]

\* Variant: the drop ignores a missing label.
HasColumnAny(df, c) == TRUE

HasColumn(df, c) == c.v \in Columns(df.id)

\* self.X, self.y, self.input_order
PartitionStep(f, n) ==
    LET s == f.self IN
    IF f.exc # "none" THEN f
    ELSE IF s.data = None THEN Raise(f, "AttributeError", 57)
    ELSE IF s.outcome_pointer = None
         THEN Raise(Call(f, "drop", FALSE), "ValueError", 57)
    ELSE IF ~HasColumn(s.data, s.outcome_pointer)
         THEN Raise(Call(f, "drop", FALSE), "KeyError", 57)
    ELSE LET X == Drop(s.data, s.outcome_pointer, n)
             g == Call(f, "drop", TRUE)
         IN IF s.outcome_pointer.v \notin Columns(s.data.id)
            THEN Raise([g EXCEPT !.self.X = X], "KeyError", 58)
            ELSE [g EXCEPT !.self.X = X,
                           !.self.y = GetCol(s.data, s.outcome_pointer, n),
                           !.self.input_order = ColumnList(X)]

\* train_test_split(self.X, self.y, test_size=0.33, random_state=101)
SplitStep(f, n) ==
    LET s == f.self IN
    IF f.exc # "none" THEN f
    ELSE LET g == Call(f, "train_test_split", TRUE)
         IN [g EXCEPT !.self.X_train = SplitPart(s.X, "X_train", n),
                      !.self.X_test = SplitPart(s.X, "X_test", n),
                      !.self.y_train = SplitPart(s.y, "y_train", n),
                      !.self.y_test = SplitPart(s.y, "y_test", n)]

\* if resample: SMOTE(...).fit_sample(self.X_train, self.y_train)
ResampleStep(f, resample, fault) ==
    LET s == f.self IN
    IF f.exc # "none" \/ ~resample THEN f
    ELSE IF fault = "SMOTE" THEN Raise(Call(f, "SMOTE.fit_sample", FALSE), "LibraryError", 66)
    ELSE [Call(f, "SMOTE.fit_sample", TRUE)
            EXCEPT !.self.X_train = Resampled(s.X_train, s.y_train, "X"),
                   !.self.y_train = Resampled(s.X_train, s.y_train, "y")]

\* self.X_report, self.y_report
ReportStep(f) ==
    IF f.exc # "none" THEN f
    ELSE [f EXCEPT !.self.X_report = NpArray(f.self.X_test),
                   !.self.y_report = NpArray(f.self.y_test)]

\* the if/elif chain choosing the scaler
ChooseScaler(f, scaling_tool, n) ==
    IF scaling_tool = "standard" THEN [f EXCEPT !.self.scaling_tool = NewScaler("StandardScaler", n)]
    ELSE IF scaling_tool = "min max" THEN [f EXCEPT !.self.scaling_tool = NewScaler("MinMaxScaler", n)]
    ELSE IF scaling_tool = "normalize"
         THEN Raise(Call(f, "normalize", FALSE), "TypeError", 78)
    ELSE f

\* Variant: the scaler is fitted on the test features.
FitAndTransformOnTest(f) ==
    LET s == f.self IN
    IF f.exc # "none" THEN f
    ELSE IF s.scaling_tool = None THEN Raise(f, "AttributeError", 79)
    ELSE LET tool == Fitted(s.scaling_tool, s.X_test)
             g1 == Call(f, "scaler.fit", TRUE)
             g2 == Call(g1, "scaler.transform", TRUE)
             g3 == Call(g2, "scaler.transform", TRUE)
         IN [g3 EXCEPT !.self.scaling_tool = tool,
                       !.self.X_train = Transform(tool, s.X_train),
                       !.self.X_test = Transform(tool, s.X_test)]

\* self.scaling_tool.fit(self.X_train) and the two transforms
FitAndTransform(f) ==
    LET s == f.self IN
    IF f.exc # "none" THEN f
    ELSE IF s.scaling_tool = None THEN Raise(f, "AttributeError", 79)
    ELSE LET tool == Fitted(s.scaling_tool, s.X_train)
             g1 == Call(f, "scaler.fit", TRUE)
             g2 == Call(g1, "scaler.transform", TRUE)
             g3 == Call(g2, "scaler.transform", TRUE)
         IN [g3 EXCEPT !.self.scaling_tool = tool,
                       !.self.X_train = Transform(tool, s.X_train),
                       !.self.X_test = Transform(tool, s.X_test)]

\* Variant: the else branch does not clear scaled_inputs.
ScaleStepNoReset(f, scale, scaling_tool, n) ==
    IF f.exc # "none" THEN f
    ELSE IF scale
         THEN FitAndTransform(ChooseScaler([f EXCEPT !.self.scaled_inputs = TRUE], scaling_tool, n))
    ELSE f

\* if scale: ... else: self.scaled_inputs = False
ScaleStep(f, scale, scaling_tool, n) ==
    IF f.exc # "none" THEN f
    ELSE IF scale
         THEN FitAndTransform(ChooseScaler([f EXCEPT !.self.scaled_inputs = TRUE], scaling_tool, n))
    ELSE [f EXCEPT !.self.scaled_inputs = FALSE]

\* self.history = self.model.fit(self.X_train, self.y_train, ...)
FitStep(f, fault, n) ==
    LET s == f.self IN
    IF f.exc # "none" THEN f
    ELSE IF fault = "model.fit" THEN Raise(Call(f, "model.fit", FALSE), "LibraryError", 85)
    ELSE [Call(f, "model.fit", TRUE)
            EXCEPT !.model = FittedModel(f.model, s.X_train, s.y_train),
                   !.self.history = History(s.X_train, s.y_train, n)]

TrainFrame(s, m, a, n) ==
    FitStep(
      ScaleStep(
        ReportStep(
          ResampleStep(
            SplitStep(
              PartitionStep(Frame0(s, m), n), n),
            a.resample, a.fault)),
        a.scale, a.scaling_tool, n),
      a.fault, n)

\* Arguments of one train call, with the external call that raises in it.
\* scaling_tool keeps its default when scale is unset, and a call that is
\* never made is not the one that raises.
TrainArgs ==
    {a \in [scale : BOOLEAN, scaling_tool : ScalingNames, resample : BOOLEAN, fault : TrainFaults] :
        /\ (~a.scale => a.scaling_tool = "standard")
        /\ (a.fault = "SMOTE" => a.resample)
        /\ (a.fault = "model.fit" => ~(a.scale /\ a.scaling_tool = "normalize"))}

---------------------------------------------------------------------------
\* evaluate_outcome
EvaluateFrame(s, m) ==
    LET f == Frame0(s, m) IN
    IF s.X_test = None
    THEN Raise(Call(f, "model.predict_classes", FALSE), "LibraryError", 139)
    ELSE LET p == PredictClasses(m, s.X_test)
             g1 == Call(f, "model.predict_classes", TRUE)
             g2 == Call(g1, "classification_report", TRUE)
         IN [g2 EXCEPT !.self.predictions = p,
                       !.self.general_report = ClassificationReport(s.y_test, p)]

\* show_roc_curve: the frame and the value of the local auc_keras
RocFrame(s, m, save) ==
    LET f == Frame0(s, m) IN
    IF s.X_test = None
    THEN Raise(Call(f, "model.predict", FALSE), "LibraryError", 116)
    ELSE LET p == Predict(m, s.X_test)
             g1 == Call(f, "model.predict", TRUE)
             g2 == Call(g1, "roc_curve", TRUE)
             g3 == Call(g2, "auc", TRUE)
         IN IF save THEN Call(g3, "savefig", TRUE) ELSE g3

\* show_roc_curve has no return statement
RocReturn(s, m) == None

\* evaluate_outcome has no return statement
EvaluateReturn(f) == None

\* calculate: the scaling branch
CalcInput(f, input_array, override) ==
    LET s == f.self IN
    IF s.scaled_inputs /\ ~override
    THEN IF s.scaling_tool = None THEN [frame |-> Raise(f, "AttributeError", 167), input |-> input_array]
         ELSE [frame |-> Call(f, "scaler.transform", TRUE),
               input |-> Transform(s.scaling_tool, input_array)]
    ELSE [frame |-> f, input |-> input_array]

\* Variant: the else branch returns the complement of the probability.
CalcBranchComplement(m, input, happening) ==
    IF happening THEN Predict(m, input) ELSE [tag |-> "complement", of |-> Predict(m, input)]

\* calculate: the two return branches
CalcBranch(m, input, happening) ==
    IF happening THEN Predict(m, input) ELSE Predict(m, input)

\* calculate: outcome (exception or returned value) and the calls made
CalcOutcome(s, m, input_array, happening, override) ==
    LET c == CalcInput(Frame0(s, m), input_array, override)
        f == c.frame
    IN IF f.exc # "none" THEN [frame |-> f, value |-> None]
       ELSE [frame |-> Call(f, "model.predict", TRUE),
             value |-> CalcBranch(m, c.input, happening)]

---------------------------------------------------------------------------
\* State after __init__
InitSelf ==
    [auc |-> Num(0), data |-> None, outcome_pointer |-> None, X |-> None,
     scaled_inputs |-> FALSE, scaling_tool |-> None, y |-> None,
     X_train |-> None, X_test |-> None, y_train |-> None, y_test |-> None,
     predictions |-> None, trained |-> FALSE, history |-> None,
     X_report |-> None, y_report |-> None,
     general_report |-> Str("General Report not generated when model was trained"),
     input_order |-> None]

\* The most recent train invocation: its number, arguments and outcome, and
\* whether the invocation before it returned normally with scale set.
NoTrain == [call |-> 0, args |-> None, exc |-> "none", line |-> 0, prevScaled |-> FALSE]

Init ==
    /\ self = InitSelf
    /\ model = [tag |-> "model", fit |-> None]
    /\ ret = [op |-> "__init__", args |-> None, exc |-> "none", line |-> 0, value |-> None]
    /\ trace = <<>>
    /\ lastTrain = NoTrain

\* trainer.data = <dataset>
SetData ==
    \E d \in Datasets :
        /\ self' = [self EXCEPT !.data = DataFrame(d)]
        /\ ret' = [op |-> "set_data", args |-> None, exc |-> "none", line |-> 0, value |-> None]
        /\ trace' = <<>>
        /\ UNCHANGED <<model, lastTrain>>

\* trainer.outcome_pointer = <column name>
SetOutcomePointer ==
    \E c \in OutcomeNames :
        /\ self' = [self EXCEPT !.outcome_pointer = Str(c)]
        /\ ret' = [op |-> "set_outcome_pointer", args |-> None, exc |-> "none", line |-> 0, value |-> None]
        /\ trace' = <<>>
        /\ UNCHANGED <<model, lastTrain>>

Train ==
    \E a \in TrainArgs :
        /\ lastTrain.call < MaxCalls
        /\ LET n == lastTrain.call + 1
               f == TrainFrame(self, model, a, n)
           IN /\ self' = f.self
              /\ model' = f.model
              /\ trace' = f.trace
              /\ ret' = [op |-> "train", args |-> None, exc |-> f.exc, line |-> f.line, value |-> None]
              /\ lastTrain' = [call |-> n, args |-> a, exc |-> f.exc, line |-> f.line,
                                prevScaled |-> (lastTrain.call > 0 /\ lastTrain.exc = "none"
                                                /\ lastTrain.args.scale)]

EvaluateOutcome ==
    LET f == EvaluateFrame(self, model) IN
    /\ self' = f.self
    /\ trace' = f.trace
    /\ ret' = [op |-> "evaluate_outcome", args |-> None, exc |-> f.exc, line |-> f.line,
               value |-> IF f.exc = "none" THEN EvaluateReturn(f) ELSE None]
    /\ UNCHANGED <<model, lastTrain>>

ShowRocCurve ==
    \E save \in BOOLEAN :
        LET f == RocFrame(self, model, save) IN
        /\ self' = f.self
        /\ trace' = f.trace
        /\ ret' = [op |-> "show_roc_curve", args |-> [save |-> save],
                   exc |-> f.exc, line |-> f.line,
                   value |-> IF f.exc = "none" THEN RocReturn(self, model) ELSE None]
        /\ UNCHANGED <<model, lastTrain>>

Calculate ==
    \E r \in Rows, happening \in BOOLEAN, override \in BOOLEAN :
        LET o == CalcOutcome(self, model, Row(r), happening, override) IN
        /\ trace' = o.frame.trace
        /\ ret' = [op |-> "calculate",
                   args |-> [input_array |-> Row(r), happening |-> happening, override |-> override],
                   exc |-> o.frame.exc, line |-> o.frame.line, value |-> o.value]
        /\ UNCHANGED <<self, model, lastTrain>>

Next ==
    \/ SetData
    \/ SetOutcomePointer
    \/ Train
    \/ EvaluateOutcome
    \/ ShowRocCurve
    \/ Calculate

Spec == Init /\ [][Next]_vars

---------------------------------------------------------------------------
\* Helpers for the properties

\* The train invocation whose split a value descends from (0: none).
RECURSIVE StampOf(_)
StampOf(t) ==
    IF t.tag \in {"part", "History", "scaler", "frame", "series"} THEN t.call
    ELSE IF t.tag \in {"resampled", "scaled"} THEN StampOf(t.X)
    ELSE 0

TrainCompleted == lastTrain.call > 0 /\ lastTrain.exc = "none"

TraceNames == [i \in 1..Len(trace) |-> trace[i].fn]

Called(fn) == \E i \in 1..Len(trace) : trace[i].fn = fn

SplitFromCall(n) ==
    /\ StampOf(self.X_train) = n
    /\ StampOf(self.X_test) = n
    /\ StampOf(self.y_train) = n
    /\ StampOf(self.y_test) = n

\* ---- C1 ----
\* C1 (as stated): after a completed train(scale=True) followed by a completed
\* train(scale=False), the split subsets, the scaled flag, the stored scaler
\* and the history all come from the second call; no field holds a value of
\* the first call.
C1_NoFieldFromFirstCall ==
    (TrainCompleted /\ ~lastTrain.args.scale /\ lastTrain.prevScaled) =>
        /\ SplitFromCall(lastTrain.call)
        /\ StampOf(self.history) = lastTrain.call
        /\ self.scaled_inputs = FALSE
        /\ (self.scaling_tool = None \/ StampOf(self.scaling_tool) = lastTrain.call)

\* C1 (amended): after a completed train(scale=True) followed by a completed
\* train(scale=False), the split subsets, the scaled flag and the history come
\* from the second call; scaling_tool is not replaced and still holds the
\* scaler fitted by the first call, which is inactive because scaled_inputs
\* is false.
C1_SecondTrainReplacesAllButScaler ==
    (TrainCompleted /\ ~lastTrain.args.scale /\ lastTrain.prevScaled) =>
        /\ SplitFromCall(lastTrain.call)
        /\ StampOf(self.history) = lastTrain.call
        /\ self.scaled_inputs = FALSE
        /\ self.scaling_tool # None
        /\ StampOf(self.scaling_tool) < lastTrain.call
        /\ StampOf(self.scaling_tool.fittedOn) = lastTrain.call - 1

C1_Witness ==
    /\ TrainCompleted /\ ~lastTrain.args.scale /\ lastTrain.prevScaled
    /\ lastTrain.call = 2
    /\ self.scaling_tool # None
    /\ StampOf(self.scaling_tool.fittedOn) = 1
    /\ StampOf(self.history) = 2

\* ---- C2 ----
\* C2: evaluate_outcome on an orchestrator on which no train ever completed
\* (history is still None) fails with NotTrainedError and does not call the
\* model's prediction.
C2_NotTrainedError ==
    (ret.op = "evaluate_outcome" /\ self.history = None) =>
        /\ ret.exc = "NotTrainedError"
        /\ ~Called("model.predict_classes")

\* ---- C3 ----
\* The most recent train call got as far as the scale step.
ReachedScaleStep == lastTrain.call > 0 /\ (lastTrain.exc = "none" \/ lastTrain.line >= 71)

CalcTransformed == \E i \in 1..Len(trace) : trace[i].fn = "scaler.transform" /\ trace[i].ok

\* C3: calculate transforms its input with the stored scaler exactly when
\* override is false and the most recent train was run with scale set.
C3_TransformIffScaleAndNotOverride ==
    (ret.op = "calculate" /\ ReachedScaleStep) =>
        (CalcTransformed <=> (~ret.args.override /\ lastTrain.args.scale))

\* ---- C4 ----
OutcomeAbsent ==
    /\ self.data # None
    /\ self.outcome_pointer # None
    /\ ~(self.outcome_pointer.v \in Columns(self.data.id))

C5_EvaluateReturnsPredictions ==
    (ret.op = "evaluate_outcome" /\ TrainCompleted) =>
        /\ ret.exc = "none"
        /\ self.predictions = PredictClasses(model, self.X_test)
        /\ self.general_report = ClassificationReport(self.y_test, self.predictions)
        /\ ret.value = self.predictions

\* ---- C6 ----
\* C6: after a completed train, show_roc_curve returns the AUC of the model's
\* predictions on the test set and self.auc holds that value.
C6_RocReturnsAuc ==
    (ret.op = "show_roc_curve" /\ TrainCompleted) =>
        /\ ret.exc = "none"
        /\ ret.value = Auc(RocCurve(self.y_test, Predict(model, self.X_test)))
        /\ self.auc = ret.value

C8_TrainOrder ==
    (ret.op = "train" /\ ret.exc = "none") =>
        LET a == lastTrain.args
            n == lastTrain.call
            Xtr0 == SplitPart(self.X, "X_train", n)
            Xte0 == SplitPart(self.X, "X_test", n)
            ytr0 == SplitPart(self.y, "y_train", n)
            yte0 == SplitPart(self.y, "y_test", n)
            Xtr1 == IF a.resample THEN Resampled(Xtr0, ytr0, "X") ELSE Xtr0
            ytr1 == IF a.resample THEN Resampled(Xtr0, ytr0, "y") ELSE ytr0
        IN /\ TraceNames = <<"drop", "train_test_split">>
                           \o (IF a.resample THEN <<"SMOTE.fit_sample">> ELSE <<>>)
                           \o (IF a.scale THEN <<"scaler.fit", "scaler.transform", "scaler.transform">>
                               ELSE <<>>)
                           \o <<"model.fit">>
           /\ self.y_test = yte0
           /\ self.y_train = ytr1
           /\ self.X_report = NpArray(Xte0)
           /\ IF a.scale
              THEN /\ self.scaling_tool.fittedOn = Xtr1
                   /\ self.X_train = Transform(self.scaling_tool, Xtr1)
                   /\ self.X_test = Transform(self.scaling_tool, Xte0)
              ELSE /\ self.X_train = Xtr1
                   /\ self.X_test = Xte0
           /\ model.fit = [X |-> self.X_train, y |-> ytr1]
           /\ self.history = History(self.X_train, ytr1, n)

C8_Witness ==
    /\ ret.op = "train" /\ ret.exc = "none"
    /\ lastTrain.args.resample /\ lastTrain.args.scale
    /\ self.X_test.tag = "scaled"
    /\ self.X_train.X.tag = "resampled"

\* ---- C9 ----
Untrained ==
    /\ self.X_train = None /\ self.X_test = None
    /\ self.y_train = None /\ self.y_test = None
    /\ self.scaled_inputs = FALSE
    /\ self.scaling_tool = None
    /\ self.history = None

TrainedBy(n) ==
    /\ SplitFromCall(n)
    /\ StampOf(self.history) = n
    /\ (self.scaled_inputs => (self.scaling_tool # None /\ StampOf(self.scaling_tool.fittedOn) = n))

\* C9: in every reachable state the split, scaled flag, scaler and history are
\* either all untouched or all come from one completed train call.
C9_TwoMacroStates ==
    Untrained \/ \E n \in 1..MaxCalls + 1 : TrainedBy(n)

\* ---- C10 ----
\* C10: whenever scaled_inputs is true, scaling_tool is a scaler of the kind
\* requested by the most recent train call, created and fitted by that call.
C10_FlagImpliesFreshScaler ==
    self.scaled_inputs =>
        /\ self.scaling_tool # None
        /\ StampOf(self.scaling_tool) = lastTrain.call
        /\ StampOf(self.scaling_tool.fittedOn) = lastTrain.call
        /\ (lastTrain.args.scaling_tool = "standard" => self.scaling_tool.kind = "StandardScaler")
        /\ (lastTrain.args.scaling_tool = "min max" => self.scaling_tool.kind = "MinMaxScaler")
        /\ lastTrain.args.scaling_tool \in {"standard", "min max", "normalize"}

====
